---- MODULE Spec2Model ----
(***************************************************************************)
(* Startup readiness orchestration of KitSvc (src/server.go).              *)
(*                                                                         *)
(* server() creates the channels `deployed` and `replayed`, hands them to  *)
(* the middlewares, starts the registration goroutine and the probe        *)
(* goroutine, and then blocks in http.ListenAndServe.  pingServer is       *)
(* inlined into the probe goroutine, one action per statement.             *)
(***************************************************************************)
EXTENDS Integers, Sequences, FiniteSets, TLC

\* Largest value of the max-ping-count flag explored.
MaxBudget == 5

\* The only status pingServer accepts (resp.StatusCode == 200).
StatusOK == 200

\* Values of c.Int("max-ping-count"): a negative one, zero, and 1..MaxBudget.
Budgets == {-1} \cup (0..MaxBudget)

\* What http.Get(url + "/sd/health") can return: a transport error, or a
\* response with a status.  The probe targets the server's own address, so
\* nothing answers before the listener is up.
HttpGet(up) ==
    IF up
      THEN { [err |-> TRUE,  status |-> 0],
             [err |-> FALSE, status |-> StatusOK],
             [err |-> FALSE, status |-> 204],
             [err |-> FALSE, status |-> 503] }
      ELSE { [err |-> TRUE,  status |-> 0] }

\* The outcomes of sd.Register(c); server() does not look at them.
RegisterOutcomes == {"ok", "fail"}

VARIABLES
    maxPingCount,  \* c.Int("max-ping-count")
    mainPc,        \* position of server() on the main goroutine
    regPc,         \* position of the registration goroutine (lines 207-214)
    pingPc,        \* position of the probe goroutine (lines 217-224, 231-244)
    deployed,      \* TRUE when channel `deployed` is closed
    replayed,      \* TRUE when channel `replayed` is closed
    started,       \* TRUE when channel `started` is closed
    closeLog,      \* the channels closed so far, in order
    listening,     \* TRUE when http.ListenAndServe is accepting requests
    exit,          \* "none" while the process runs, else why it ended
    regCalls,      \* number of calls of sd.Register
    regOutcome,    \* outcome of the last sd.Register call
    i,             \* loop variable of pingServer
    attempts,      \* the responses of the GET requests issued so far
    sleeps,        \* number of time.Sleep(time.Second) calls made
    pingResult     \* return value of pingServer: "none", "nil" or "err"

vars == << maxPingCount, mainPc, regPc, pingPc, deployed, replayed, started,
           closeLog, listening, exit, regCalls, regOutcome, i, attempts,
           sleeps, pingResult >>

chanVars == << deployed, replayed, started, closeLog >>
regVars  == << regPc, regCalls, regOutcome >>
pingVars == << pingPc, i, attempts, sleeps, pingResult >>

\* The process is alive: no os.Exit, no return from main, no panic.
Running == exit = "none"

\* Variant of AttemptOK: any response without a transport error is accepted.
AttemptOKAnyStatus(r) == r.err = FALSE

\* The test of line 235.
AttemptOK(r) == r.err = FALSE /\ r.status = StatusOK

Init ==
    /\ maxPingCount \in Budgets
    /\ mainPc = "go_register"
    /\ regPc = "unstarted"
    /\ pingPc = "unstarted"
    /\ deployed = FALSE
    /\ replayed = FALSE
    /\ started = FALSE
    /\ closeLog = << >>
    /\ listening = FALSE
    /\ exit = "none"
    /\ regCalls = 0
    /\ regOutcome = "none"
    /\ i = 0
    /\ attempts = << >>
    /\ sleeps = 0
    /\ pingResult = "none"

----------------------------------------------------------------------------
\* The main goroutine: server().

\* go func() { <-replayed; ... }()
GoRegister ==
    /\ Running
    /\ mainPc = "go_register"
    /\ mainPc' = "go_ping"
    /\ regPc' = "await"
    /\ UNCHANGED << maxPingCount, pingVars, chanVars, listening, exit,
                    regCalls, regOutcome >>

\* go func() { if err := pingServer(c); ... }()
GoPing ==
    /\ Running
    /\ mainPc = "go_ping"
    /\ mainPc' = "listen"
    /\ pingPc' = "loop"
    /\ UNCHANGED << maxPingCount, regVars, chanVars, listening, exit,
                    i, attempts, sleeps, pingResult >>

\* http.ListenAndServe binds the address and serves.
ListenAndServe ==
    /\ Running
    /\ mainPc = "listen"
    /\ mainPc' = "serving"
    /\ listening' = TRUE
    /\ UNCHANGED << maxPingCount, regVars, pingVars, chanVars, exit >>

\* http.ListenAndServe returns its error; server() and main() return.
ListenFail ==
    /\ Running
    /\ mainPc = "listen"
    /\ mainPc' = "returned"
    /\ exit' = "returned"
    /\ UNCHANGED << maxPingCount, regVars, pingVars, chanVars, listening >>

----------------------------------------------------------------------------
\* The event-replay collaborator (middleware.Event holds `replayed`).

ReplayComplete ==
    /\ Running
    /\ ~replayed
    /\ replayed' = TRUE
    /\ closeLog' = Append(closeLog, "replayed")
    /\ UNCHANGED << maxPingCount, mainPc, regVars, pingVars, deployed,
                    started, listening, exit >>

----------------------------------------------------------------------------
\* The registration goroutine.

\* Variant of RegAwait: `replayed` carries one value that the receive consumes.
RegAwaitConsume ==
    /\ Running
    /\ regPc = "await"
    /\ replayed
    /\ regPc' = "register"
    /\ replayed' = FALSE
    /\ UNCHANGED << maxPingCount, mainPc, pingVars, deployed, started,
                    closeLog, listening, exit, regCalls, regOutcome >>

\* Variant of RegAwait: the goroutine waits on `deployed` instead.
RegAwaitDeployed ==
    /\ Running
    /\ regPc = "await"
    /\ deployed
    /\ regPc' = "register"
    /\ UNCHANGED << maxPingCount, mainPc, pingVars, chanVars, listening, exit,
                    regCalls, regOutcome >>

\* <-replayed
RegAwait ==
    /\ Running
    /\ regPc = "await"
    /\ replayed
    /\ regPc' = "register"
    /\ UNCHANGED << maxPingCount, mainPc, pingVars, chanVars, listening, exit,
                    regCalls, regOutcome >>

\* Variant of RegRegister: the two statements swapped, close(started) first.
RegRegisterCloseFirst ==
    /\ Running
    /\ regPc = "register"
    /\ regPc' = "close"
    /\ started' = TRUE
    /\ closeLog' = Append(closeLog, "started")
    /\ UNCHANGED << maxPingCount, mainPc, pingVars, deployed, replayed,
                    listening, exit, regCalls, regOutcome >>

\* sd.Register(c)
RegRegister ==
    /\ Running
    /\ regPc = "register"
    /\ \E o \in RegisterOutcomes : regOutcome' = o
    /\ regCalls' = regCalls + 1
    /\ regPc' = "close"
    /\ UNCHANGED << maxPingCount, mainPc, pingVars, chanVars, listening, exit >>

\* Variant of RegClose: the goroutine loops back to sd.Register.
RegCloseAndLoop ==
    /\ Running
    /\ regPc = "close"
    /\ regPc' = "register"
    /\ IF started
         THEN /\ exit' = "panic"
              /\ UNCHANGED << started, closeLog >>
         ELSE /\ started' = TRUE
              /\ closeLog' = Append(closeLog, "started")
              /\ UNCHANGED exit
    /\ UNCHANGED << maxPingCount, mainPc, pingVars, deployed, replayed,
                    listening, regCalls, regOutcome >>

\* Variant of RegClose: `started` is closed only when sd.Register succeeded.
RegCloseIfRegistered ==
    /\ Running
    /\ regPc = "close"
    /\ regPc' = "done"
    /\ IF regOutcome = "ok"
         THEN /\ started' = TRUE
              /\ closeLog' = Append(closeLog, "started")
         ELSE UNCHANGED << started, closeLog >>
    /\ UNCHANGED << maxPingCount, mainPc, pingVars, deployed, replayed,
                    listening, exit, regCalls, regOutcome >>

\* Variant of RegClose: the goroutine ends without closing `started`.
RegCloseSkipped ==
    /\ Running
    /\ regPc = "close"
    /\ regPc' = "done"
    /\ UNCHANGED << maxPingCount, mainPc, pingVars, chanVars, listening, exit,
                    regCalls, regOutcome >>

\* close(started); closing a closed channel panics.
RegClose ==
    /\ Running
    /\ regPc = "close"
    /\ regPc' = "done"
    /\ IF started
         THEN /\ exit' = "panic"
              /\ UNCHANGED << started, closeLog >>
         ELSE /\ started' = TRUE
              /\ closeLog' = Append(closeLog, "started")
              /\ UNCHANGED exit
    /\ UNCHANGED << maxPingCount, mainPc, pingVars, deployed, replayed,
                    listening, regCalls, regOutcome >>

----------------------------------------------------------------------------
\* The probe goroutine, with pingServer inlined.

\* Variant of PingLoop: the loop test written i <= max-ping-count.
PingLoopInclusive ==
    /\ Running
    /\ pingPc = "loop"
    /\ IF i <= maxPingCount
         THEN /\ pingPc' = "get"
              /\ UNCHANGED pingResult
         ELSE /\ pingPc' = "returned"
              /\ pingResult' = "err"
    /\ UNCHANGED << maxPingCount, mainPc, regVars, chanVars, listening, exit,
                    i, attempts, sleeps >>

\* for i := 0; i < c.Int("max-ping-count"); ... / return errors.New(...)
PingLoop ==
    /\ Running
    /\ pingPc = "loop"
    /\ IF i < maxPingCount
         THEN /\ pingPc' = "get"
              /\ UNCHANGED pingResult
         ELSE /\ pingPc' = "returned"
              /\ pingResult' = "err"
    /\ UNCHANGED << maxPingCount, mainPc, regVars, chanVars, listening, exit,
                    i, attempts, sleeps >>

\* Variant of PingGet: a successful attempt does not return, the loop goes on.
PingGetNoReturn ==
    /\ Running
    /\ pingPc = "get"
    /\ \E r \in HttpGet(listening) :
         /\ attempts' = Append(attempts, r)
         /\ pingPc' = "sleep"
         /\ UNCHANGED pingResult
    /\ UNCHANGED << maxPingCount, mainPc, regVars, chanVars, listening, exit,
                    i, sleeps >>

\* resp, err := http.Get(...); if err == nil && resp.StatusCode == 200 { return nil }
PingGet ==
    /\ Running
    /\ pingPc = "get"
    /\ \E r \in HttpGet(listening) :
         /\ attempts' = Append(attempts, r)
         /\ IF AttemptOK(r)
              THEN /\ pingPc' = "returned"
                   /\ pingResult' = "nil"
              ELSE /\ pingPc' = "sleep"
                   /\ UNCHANGED pingResult
    /\ UNCHANGED << maxPingCount, mainPc, regVars, chanVars, listening, exit,
                    i, sleeps >>

\* time.Sleep(time.Second); i++
PingSleep ==
    /\ Running
    /\ pingPc = "sleep"
    /\ sleeps' = sleeps + 1
    /\ i' = i + 1
    /\ pingPc' = "loop"
    /\ UNCHANGED << maxPingCount, mainPc, regVars, chanVars, listening, exit,
                    attempts, pingResult >>

\* Variant of PingFatal: the error is logged without os.Exit and the goroutine
\* goes on to close(deployed).
PingFatalFallThrough ==
    /\ Running
    /\ pingPc = "returned"
    /\ pingResult = "err"
    /\ pingPc' = "done"
    /\ deployed' = TRUE
    /\ closeLog' = Append(closeLog, "deployed")
    /\ UNCHANGED << maxPingCount, mainPc, regVars, replayed, started,
                    listening, exit, i, attempts, sleeps, pingResult >>

\* Variant of PingFatal: the error is logged and the goroutine ends, the
\* process keeps running.
PingFatalLogOnly ==
    /\ Running
    /\ pingPc = "returned"
    /\ pingResult = "err"
    /\ pingPc' = "done"
    /\ UNCHANGED << maxPingCount, mainPc, regVars, chanVars, listening, exit,
                    i, attempts, sleeps, pingResult >>

\* if err != nil { logrus.Fatalln(...) }: logs and calls os.Exit(1).
PingFatal ==
    /\ Running
    /\ pingPc = "returned"
    /\ pingResult = "err"
    /\ pingPc' = "done"
    /\ exit' = "fatal"
    /\ UNCHANGED << maxPingCount, mainPc, regVars, chanVars, listening,
                    i, attempts, sleeps, pingResult >>

\* Variant of PingDeployed: the error of pingServer is logged without ending
\* the process, so the goroutine falls through to close(deployed).
PingDeployedAnyResult ==
    /\ Running
    /\ pingPc = "returned"
    /\ pingPc' = "done"
    /\ IF deployed
         THEN /\ exit' = "panic"
              /\ UNCHANGED << deployed, closeLog >>
         ELSE /\ deployed' = TRUE
              /\ closeLog' = Append(closeLog, "deployed")
              /\ UNCHANGED exit
    /\ UNCHANGED << maxPingCount, mainPc, regVars, replayed, started,
                    listening, i, attempts, sleeps, pingResult >>

\* close(deployed); closing a closed channel panics.
PingDeployed ==
    /\ Running
    /\ pingPc = "returned"
    /\ pingResult = "nil"
    /\ pingPc' = "done"
    /\ IF deployed
         THEN /\ exit' = "panic"
              /\ UNCHANGED << deployed, closeLog >>
         ELSE /\ deployed' = TRUE
              /\ closeLog' = Append(closeLog, "deployed")
              /\ UNCHANGED exit
    /\ UNCHANGED << maxPingCount, mainPc, regVars, replayed, started,
                    listening, i, attempts, sleeps, pingResult >>

----------------------------------------------------------------------------
Main == GoRegister \/ GoPing \/ ListenAndServe \/ ListenFail
RegGoroutine == RegAwait \/ RegRegister \/ RegClose
PingGoroutine == PingLoop \/ PingGet \/ PingSleep \/ PingFatal \/ PingDeployed

Next ==
    \/ GoRegister
    \/ GoPing
    \/ ListenAndServe
    \/ ListenFail
    \/ ReplayComplete
    \/ RegAwait
    \/ RegRegister
    \/ RegClose
    \/ PingLoop
    \/ PingGet
    \/ PingSleep
    \/ PingFatal
    \/ PingDeployed

Spec == Init /\ [][Next]_vars

\* The Go scheduler runs every runnable goroutine eventually.
FairSpec ==
    /\ Spec
    /\ WF_vars(GoRegister \/ GoPing \/ ListenAndServe)
    /\ WF_vars(RegGoroutine)
    /\ WF_vars(PingGoroutine)

TypeOK ==
    /\ maxPingCount \in Budgets
    /\ mainPc \in {"go_register", "go_ping", "listen", "serving", "returned"}
    /\ regPc \in {"unstarted", "await", "register", "close", "done"}
    /\ pingPc \in {"unstarted", "loop", "get", "sleep", "returned", "done"}
    /\ deployed \in BOOLEAN /\ replayed \in BOOLEAN /\ started \in BOOLEAN
    /\ listening \in BOOLEAN
    /\ exit \in {"none", "fatal", "returned", "panic"}
    /\ regCalls \in Nat
    /\ regOutcome \in {"none"} \cup RegisterOutcomes
    /\ i \in Nat /\ sleeps \in Nat
    /\ pingResult \in {"none", "nil", "err"}

----------------------------------------------------------------------------
\* Derived quantities used by the properties.

\* Number of times channel ch was closed.
Closes(ch) == Cardinality({ k \in DOMAIN closeLog : closeLog[k] = ch })

\* Number of GET requests pingServer has issued.
Requests == Len(attempts)

\* pingServer has returned.
PingReturned == pingResult # "none"

\* Every attempt made so far failed.
AllFailed == \A k \in DOMAIN attempts : ~AttemptOK(attempts[k])

----------------------------------------------------------------------------
\* C1: sd.Register is never invoked before both `replayed` and `deployed`
\* are closed.
C1_RegisterAfterBoth == regCalls > 0 => (replayed /\ deployed)

\* C2: when the probe exhausts its budget and the process ends in the fatal
\* exit, sd.Register has never been called in that execution.
C2_ExhaustedNeverRegisters == exit = "fatal" => regCalls = 0

\* C3: sd.Register is invoked at most once and `started` is closed at most
\* once, and when the registration goroutine has finished, whatever the order
\* in which the preconditions completed, each has happened exactly once.
C3_ExactlyOnce ==
    /\ regCalls <= 1
    /\ Closes("started") <= 1
    /\ exit # "panic"
    /\ regPc = "done" => (regCalls = 1 /\ Closes("started") = 1 /\ started)

C3_Witness ==
    /\ regPc = "done"
    /\ closeLog = << "deployed", "replayed", "started" >>

\* C4: against a target that fails every attempt, pingServer returns the
\* exhaustion error after exactly n GET requests when n >= 1, and after no
\* request (and no sleep) when n <= 0.
C4_AlwaysFailing ==
    /\ (PingReturned /\ AllFailed) =>
          /\ pingResult = "err"
          /\ Requests = (IF maxPingCount >= 1 THEN maxPingCount ELSE 0)
    /\ maxPingCount <= 0 => (Requests = 0 /\ sleeps = 0)

C4_Witness ==
    /\ pingResult = "err"
    /\ maxPingCount = MaxBudget
    /\ Requests = MaxBudget

\* C5: when the first k-1 attempts fail and the k-th succeeds (k <= n),
\* pingServer has issued exactly k GET requests, returns success, and issues
\* no request after it.
C5_SucceedsAtK ==
    \A k \in DOMAIN attempts :
        AttemptOK(attempts[k]) =>
            /\ k = Requests
            /\ k <= maxPingCount
            /\ pingResult = "nil"
            /\ pingPc \in {"returned", "done"}
            /\ \A j \in 1..(k - 1) : ~AttemptOK(attempts[j])

C5_Witness ==
    /\ pingPc = "done"
    /\ pingResult = "nil"
    /\ Requests > 1
    /\ Requests < maxPingCount

\* C6: a probe that has made a >= 1 attempts has slept exactly a - 1
\* intervals when it returns.
C6_SleepsBetweenAttempts ==
    (PingReturned /\ Requests >= 1) => sleeps = Requests - 1

\* C7: once `deployed` and `replayed` are both closed, sd.Register is
\* eventually invoked and `started` is eventually closed.
C7_EventuallyReady == (deployed /\ replayed) ~> (regCalls = 1 /\ started)

C7_Witness ==
    /\ started
    /\ regCalls = 1
    /\ closeLog = << "replayed", "deployed", "started" >>

C9_StartedAfterRegister ==
    started => (regCalls >= 1 /\ regOutcome # "none" /\ regPc = "done")

C9_Witness ==
    /\ started
    /\ regCalls = 1
    /\ regOutcome = "ok"

\* C10: the outcome of sd.Register is ignored: the call changes nothing but
\* the registration goroutine, the next step of the goroutine closes
\* `started` without another call, and a finished goroutine has called
\* sd.Register once and closed `started`, whether the call succeeded or not.
C10_RegisterOutcomeIgnored ==
    /\ [][ regCalls' # regCalls =>
             /\ regPc' = "close"
             /\ UNCHANGED << mainPc, pingVars, chanVars, listening, exit >> ]_vars
    /\ [][ (regPc = "close" /\ regPc' # regPc) =>
             /\ started'
             /\ regPc' = "done"
             /\ UNCHANGED << regCalls, regOutcome, mainPc, pingVars, deployed,
                             replayed, listening, exit >> ]_vars
    /\ [](regPc = "done" => (started /\ regCalls = 1))

C10_Witness ==
    /\ regPc = "done"
    /\ regOutcome = "fail"
    /\ started

\* The response of the latest GET request.
LastResponse == attempts[Len(attempts)]

\* C11: each of `deployed`, `replayed`, `started` is closed at most once and
\* only by its one producer, never reopens once closed, and a receive on a
\* closed channel does not block.
C11_SignalsOneShot ==
    /\ [](/\ Closes("deployed") = (IF deployed THEN 1 ELSE 0)
          /\ Closes("replayed") = (IF replayed THEN 1 ELSE 0)
          /\ Closes("started") = (IF started THEN 1 ELSE 0))
    /\ [][ /\ deployed => deployed'
           /\ replayed => replayed'
           /\ started => started' ]_vars
    /\ [][ /\ (deployed' # deployed) => (pingPc = "returned" /\ pingPc' = "done")
           /\ (started' # started) => (regPc = "close" /\ regPc' = "done")
           /\ (replayed' # replayed) =>
                 UNCHANGED << mainPc, regVars, pingVars, deployed, started >>
         ]_vars
    /\ []((Running /\ regPc = "await" /\ replayed) => ENABLED RegAwait)

C11_Witness ==
    /\ regPc = "register"
    /\ replayed
    /\ deployed
    /\ Closes("replayed") = 1
    /\ Closes("deployed") = 1

\* C13: an attempt succeeds exactly when the GET had no transport error and
\* the status is 200; every other response leads to the same sleep-and-retry
\* state, whatever the kind of failure.
C13_AttemptOutcome ==
    [][ Len(attempts') = Len(attempts) + 1 =>
          LET r == attempts'[Len(attempts')]
          IN  IF r.err = FALSE /\ r.status = 200
                THEN pingResult' = "nil" /\ pingPc' = "returned"
                ELSE /\ pingPc' = "sleep"
                     /\ UNCHANGED << pingResult, i, sleeps, exit, chanVars,
                                     regVars, mainPc, listening >> ]_vars

C13_Witness ==
    /\ pingPc = "sleep"
    /\ Requests >= 2
    /\ LastResponse.err = FALSE
    /\ LastResponse.status # StatusOK
    /\ attempts[1].err = TRUE

\* C14: `deployed` is closed exactly when pingServer returned success: a
\* failed attempt neither ends the process nor closes `deployed`, and the
\* fatal exit leaves `deployed` open.
C14_DeployedIffProbeOK ==
    /\ [](deployed => pingResult = "nil")
    /\ [](pingPc = "done" => (deployed <=> pingResult = "nil"))
    /\ [](exit = "fatal" => (~deployed /\ pingResult = "err" /\ AllFailed))
    /\ [][ (Len(attempts') = Len(attempts) + 1 /\ pingResult' # "nil") =>
              UNCHANGED << deployed, exit >> ]_vars

C14_Witness ==
    /\ exit = "fatal"
    /\ ~deployed
    /\ Requests >= 2

\* C15: `started` closed implies `replayed` closed, and as long as `replayed`
\* is open sd.Register is not called and `started` stays open, even when the
\* probe has succeeded and the server is serving.
C15_StartedImpliesReplayed ==
    /\ started => replayed
    /\ ~replayed => (regCalls = 0 /\ ~started /\ regPc \in {"unstarted", "await"})

C15_Witness ==
    /\ deployed
    /\ listening
    /\ ~replayed
    /\ regPc = "await"
    /\ regCalls = 0

\* C16: the probe goroutine is started before the accept loop listens; an
\* attempt made while the listener is down fails and uses up one unit of the
\* budget; an attempt answered with 200 makes the probe succeed and `deployed`
\* is then closed; a probe that returned without such an attempt ends the
\* process with the fatal exit.
C16_ProbeVersusListener ==
    /\ [](listening => pingPc # "unstarted")
    /\ [][ (Len(attempts') = Len(attempts) + 1 /\ ~listening) =>
              (pingPc' = "sleep" /\ pingResult' = "none") ]_vars
    /\ [][ (pingPc = "sleep" /\ pingPc' # "sleep") => i' = i + 1 ]_vars
    /\ [][ (Len(attempts') = Len(attempts) + 1
            /\ attempts'[Len(attempts')] = [err |-> FALSE, status |-> 200]) =>
              (pingResult' = "nil" /\ Len(attempts') <= maxPingCount) ]_vars
    /\ (pingResult = "nil") ~> deployed
    /\ []((PingReturned /\ AllFailed) => pingResult = "err")
    /\ []((pingPc = "done" /\ pingResult = "err") => exit = "fatal")
    /\ (pingResult = "err") ~> (exit # "none")

C16_Witness ==
    /\ ~listening
    /\ mainPc = "listen"
    /\ Requests >= 1
    /\ i >= 1
====
